---------------------------- MODULE Spec2Model ----------------------------
(***************************************************************************)
(* The Streamlit dashboard of src/dashboard/app.py as a state machine.     *)
(*                                                                         *)
(* The script is re-executed top to bottom on every user interaction; one  *)
(* execution is one step of the model.  The state that survives between    *)
(* executions is the MongoDB collection (outside the process), the two     *)
(* Streamlit caches (st.cache_resource for the collection handle,          *)
(* st.cache_data(ttl=600) for the DataFrame) and the widget values of the  *)
(* session; what one execution put on the screen is kept in outcome,       *)
(* io, df, view and risk.                                                  *)
(*                                                                         *)
(* Representation.  The collection and the DataFrame are bags: no          *)
(* aggregate of the script reads the row order.  A float that is a         *)
(* quotient of integers is kept as the exact fraction [n, d]; the risk     *)
(* score, a sum of two-decimal constants, is kept in hundredths.           *)
(***************************************************************************)
EXTENDS Integers, Sequences, FiniteSets, Bags, TLC

VARIABLES
    store,      \* the patient_readmissions collection: a bag of documents
    reachable,  \* whether MongoDB Atlas answers (ping, find)
    conn,       \* st.cache_resource holds the collection handle
    cache,      \* st.cache_data entry of load_data: [full, df, age]
    page,       \* the sidebar radio's value
    form,       \* the ten input widgets of the risk form
    outcome,    \* how the last execution ended
    io,         \* the last execution's calls to the database: [pings, finds]
    df,         \* the module-level df of the last execution
    view,       \* the aggregates the last execution computed
    risk        \* what the last execution showed under the button

vars == <<store, reachable, conn, cache, page, form, outcome, io, df, view, risk>>

---------------------------------------------------------------------------
(* Bounds of the model *)

\* how many batches of documents the environment inserts into the collection
MaxInserts == 3
\* how old a cache entry is let grow, in seconds
MaxAge == 600

(* Program constants *)

TTL == 600
MinCases == 100
TopN == 10
MaxPriorVisits == 5
MedsThreshold == 15
StayThreshold == 7
SampleCap == 5000
RiskBase == 11
RiskInpatient == 15
RiskEmergency == 10
RiskMeds == 8
RiskStay == 7
RiskDiag == 5
RiskCap == 85
RiskLow == 20
RiskModerate == 40
RiskMedsMin == 20
RiskStayMin == 7

---------------------------------------------------------------------------
(* Small helpers *)

Min(a, b) == IF a <= b THEN a ELSE b

Range(s) == {s[i] : i \in DOMAIN s}

RECURSIVE SetSum(_, _)
\* the sum of f[x] over the finite set S
SetSum(S, f) ==
    IF S = {} THEN 0
    ELSE LET x == CHOOSE y \in S : TRUE IN f[x] + SetSum(S \ {x}, f)

\* all orderings of the finite set S, as sequences without repetition
Perms(S) ==
    {s \in [1..Cardinality(S) -> S] : \A i, j \in DOMAIN s : i # j => s[i] # s[j]}

\* a float obtained as n/d, kept exact; d = 0 is NaN
Frac(n, d) == [n |-> n, d |-> d]
IsNaN(q) == q.d = 0
FracLess(p, q) == p.n * q.d < q.n * p.d
FracEq(p, q) == p.n * q.d = q.n * p.d
Times100(q) == [n |-> q.n * 100, d |-> q.d]

\* numpy's round(2): to the nearest hundredth, a tie to the even one
Round2(q) ==
    IF IsNaN(q) THEN q
    ELSE LET x == q.n * 100
             fl == x \div q.d
             rem == x % q.d
             up == 2 * rem > q.d \/ (2 * rem = q.d /\ fl % 2 = 1)
         IN  Frac(IF up THEN fl + 1 ELSE fl, 100)

\* Python's string order, on the labels that occur
LabelOrder ==
    <<"AfricanAmerican", "Caucasian", "Circulatory", "Diabetes", "Female",
      "Male", "NO", "Other", "Respiratory", "YES">>
LabelRank(s) == CHOOSE i \in DOMAIN LabelOrder : LabelOrder[i] = s
StrLess(a, b) == LabelRank(a) < LabelRank(b)

---------------------------------------------------------------------------
(* Documents of the collection *)

Doc(age, gender, race, days, meds, lab, ndiag, inp, emer, diag, readm) ==
    [demographics |-> [age |-> age, gender |-> gender, race |-> race],
     admission    |-> [time_in_hospital |-> days],
     clinical     |-> [num_medications |-> meds, num_lab_procedures |-> lab,
                       number_diagnoses |-> ndiag],
     utilization  |-> [number_inpatient |-> inp, number_emergency |-> emer],
     diagnoses    |-> [primary |-> diag],
     outcome      |-> [readmitted_30days |-> readm,
                       readmitted_30days_label |-> IF readm = 1 THEN "YES" ELSE "NO"]]

WellFormedDocs ==
    {Doc("[60-70)", "Female", "Caucasian",       3, 10, 40, 7, 0, 0, "Circulatory", 0),
     Doc("[50-60)", "Female", "AfricanAmerican", 8, 25, 30, 5, 2, 1, "Diabetes",    0),
     Doc("[80-90)", "Male",   "AfricanAmerican", 7, 15, 60, 9, 6, 6, "Diabetes",    1)}

\* a document without outcome.readmitted_30days
MalformedDocs ==
    {[demographics |-> [age |-> "[60-70)", gender |-> "Male", race |-> "Other"],
      admission    |-> [time_in_hospital |-> 2],
      clinical     |-> [num_medications |-> 12, num_lab_procedures |-> 20,
                        number_diagnoses |-> 4],
      utilization  |-> [number_inpatient |-> 1, number_emergency |-> 0],
      diagnoses    |-> [primary |-> "Other"],
      outcome      |-> [readmitted_30days_label |-> "NO"]]}

Documents == WellFormedDocs \cup MalformedDocs

\* what the environment inserts at once: a document, and how many copies of it
Insertions == (WellFormedDocs \X {1, MinCases}) \cup (MalformedDocs \X {1})

\* the number of batches a collection is made of
Batches(b) ==
    SetSum(BagToSet(b), [d \in BagToSet(b) |-> (b[d] \div MinCases) + (b[d] % MinCases)])

---------------------------------------------------------------------------
(* load_data *)

\* the nested paths load_data reads, by column
Paths ==
    [age               |-> <<"demographics", "age">>,
     gender            |-> <<"demographics", "gender">>,
     race              |-> <<"demographics", "race">>,
     time_in_hospital  |-> <<"admission", "time_in_hospital">>,
     num_medications   |-> <<"clinical", "num_medications">>,
     num_lab_procedures |-> <<"clinical", "num_lab_procedures">>,
     number_diagnoses  |-> <<"clinical", "number_diagnoses">>,
     number_inpatient  |-> <<"utilization", "number_inpatient">>,
     number_emergency  |-> <<"utilization", "number_emergency">>,
     primary_diagnosis |-> <<"diagnoses", "primary">>,
     readmitted_30days |-> <<"outcome", "readmitted_30days">>,
     readmitted_label  |-> <<"outcome", "readmitted_30days_label">>]

Columns == DOMAIN Paths

\* doc[a][b] raises KeyError when a key is absent
HasPath(doc, p) == p[1] \in DOMAIN doc /\ p[2] \in DOMAIN doc[p[1]]

\* whether building the row of doc raises KeyError
RaisesKeyError(doc) == \E c \in Columns : ~HasPath(doc, Paths[c])

\* the row dict built from one document
Row(doc) == [c \in Columns |-> doc[Paths[c][1]][Paths[c][2]]]

\* DataFrame that keeps one row of each set of equal rows (a drop_duplicates)
DataFrame_deduplicated(docs) ==
    LET rs == {Row(d) : d \in BagToSet(docs)}
    IN  [columns |-> IF rs = {} THEN {} ELSE Columns,
         rows    |-> [r \in rs |-> 1]]

\* pd.DataFrame(rows): one row per dict, the columns are the keys of the dicts
DataFrame(docs) ==
    LET rs == {Row(d) : d \in BagToSet(docs)}
    IN  [columns |-> IF rs = {} THEN {} ELSE Columns,
         rows    |-> [r \in rs |->
                        SetSum({d \in BagToSet(docs) : Row(d) = r},
                               [d \in BagToSet(docs) |-> docs[d]])]]

NoDF == [columns |-> {}, rows |-> EmptyBag, undefined |-> TRUE]

\* get_database_connection under st.cache_resource: the handle once made is
\* reused without a ping; a failed attempt shows st.error and st.stop()s
get_database_connection(hasConn, up) ==
    IF hasConn THEN [ok |-> TRUE, conn |-> TRUE, pings |-> 0]
    ELSE IF up THEN [ok |-> TRUE, conn |-> TRUE, pings |-> 1]
    ELSE [ok |-> FALSE, conn |-> FALSE, pings |-> 1]

\* load_data that skips a document whose row raises KeyError
load_data_skipping(hasConn, up, docs) ==
    LET c == get_database_connection(hasConn, up)
        good == {d \in BagToSet(docs) : ~RaisesKeyError(d)}
    IN
    IF ~c.ok THEN
        [status |-> "stopped", conn |-> c.conn, df |-> NoDF,
         io |-> [pings |-> c.pings, finds |-> 0]]
    ELSE IF ~up THEN
        [status |-> "exception", conn |-> c.conn, df |-> NoDF,
         io |-> [pings |-> c.pings, finds |-> 1]]
    ELSE
        [status |-> "ok", conn |-> c.conn, df |-> DataFrame([d \in good |-> docs[d]]),
         io |-> [pings |-> c.pings, finds |-> 1]]

\* the body of load_data, run on a cache miss
load_data(hasConn, up, docs) ==
    LET c == get_database_connection(hasConn, up) IN
    IF ~c.ok THEN
        [status |-> "stopped", conn |-> c.conn, df |-> NoDF,
         io |-> [pings |-> c.pings, finds |-> 0]]
    ELSE IF ~up THEN
        [status |-> "exception", conn |-> c.conn, df |-> NoDF,
         io |-> [pings |-> c.pings, finds |-> 1]]
    ELSE IF \E d \in BagToSet(docs) : RaisesKeyError(d) THEN
        [status |-> "exception", conn |-> c.conn, df |-> NoDF,
         io |-> [pings |-> c.pings, finds |-> 1]]
    ELSE
        [status |-> "ok", conn |-> c.conn, df |-> DataFrame(docs),
         io |-> [pings |-> c.pings, finds |-> 1]]

EmptyCache == [full |-> FALSE, df |-> NoDF, age |-> 0]

\* Fresh with the entry still served at the very age of the ttl
Fresh_inclusive(c) == c.full /\ c.age <= TTL

\* an entry of st.cache_data(ttl=600) is served while younger than the ttl
Fresh(c) == c.full /\ c.age < TTL

\* df = load_data() through st.cache_data
cached_load_data(c, hasConn, up, docs) ==
    IF Fresh(c) THEN
        [status |-> "ok", conn |-> hasConn, df |-> c.df, cache |-> c,
         io |-> [pings |-> 0, finds |-> 0]]
    ELSE
        LET r == load_data(hasConn, up, docs) IN
        [status |-> r.status, conn |-> r.conn, io |-> r.io, df |-> r.df,
         cache |-> IF r.status = "ok"
                   THEN [full |-> TRUE, df |-> r.df, age |-> 0]
                   ELSE EmptyCache]

---------------------------------------------------------------------------
(* pandas on the DataFrame *)

\* len(df)
NRows(d) == BagCardinality(d.rows)

RowSet(d) == BagToSet(d.rows)

\* df[c].sum()
ColSum(d, c) == SetSum(RowSet(d), [r \in RowSet(d) |-> d.rows[r] * r[c]])

\* the number of rows of d among those of the set R
CountIn(d, R) == SetSum(R, [r \in R |-> d.rows[r]])

\* df[c].mean(): NaN on no rows
ColMean(d, c) == Frac(ColSum(d, c), NRows(d))

\* the rows of d whose column c holds k, as a DataFrame
Where(d, c, k) ==
    LET R == {r \in RowSet(d) : r[c] = k}
    IN  [columns |-> d.columns, rows |-> [r \in R |-> d.rows[r]]]

\* the sequence that lists the finite set S in ascending order of rank[x],
\* which differs from element to element
Sorted(S, rank) ==
    CHOOSE s \in Perms(S) : \A i, j \in DOMAIN s : i < j => rank[s[i]] < rank[s[j]]

\* the place of the value k of column c in the ascending order of the column
KeyRank(c, k) ==
    IF c \in {"number_inpatient", "number_emergency"} THEN k ELSE LabelRank(k)

\* s.head(n)
Head_n(s, n) == SubSeq(s, 1, Min(n, Len(s)))

\* GroupAgg over the readmitted rows only
GroupAgg_readmitted_only(d, c) ==
    LET keys == {r[c] : r \in {x \in RowSet(d) : x.readmitted_30days = 1}}
        agg(k) == LET g == Where(d, c, k)
                  IN  [Key |-> k,
                       Readmissions |-> ColSum(g, "readmitted_30days"),
                       Total |-> NRows(g),
                       Rate |-> ColMean(g, "readmitted_30days")]
        groups == {agg(k) : k \in keys}
    IN  Sorted(groups, [g \in groups |-> KeyRank(c, g.Key)])

\* df.groupby(c)['readmitted_30days'].agg(['sum', 'count', 'mean']).reset_index():
\* one row per value of c that occurs, in ascending order of the value
GroupAgg(d, c) ==
    LET keys == {r[c] : r \in RowSet(d)}
        agg(k) == LET g == Where(d, c, k)
                  IN  [Key |-> k,
                       Readmissions |-> ColSum(g, "readmitted_30days"),
                       Total |-> NRows(g),
                       Rate |-> ColMean(g, "readmitted_30days")]
        groups == {agg(k) : k \in keys}
    IN  Sorted(groups, [g \in groups |-> KeyRank(c, g.Key)])

\* ScaleRate that leaves the mean a fraction
ScaleRate_omitted(t) == t

\* t['Rate'] = t['Rate'] * 100
ScaleRate(t) == [i \in DOMAIN t |-> [t[i] EXCEPT !.Rate = Times100(@)]]

\* the readmission table of a view: groupby, rename, Rate * 100
ReadmitTable(d, c) == ScaleRate(GroupAgg(d, c))

\* SortByRateDesc with ascending=True
SortByRateAsc(t) ==
    {s \in Perms(Range(t)) :
        \A i, j \in DOMAIN s : i < j => ~FracLess(s[j].Rate, s[i].Rate)}

\* t.sort_values('Rate', ascending=False): pandas' default quicksort is not
\* stable, rows of equal Rate come out in an order the sort does not define
SortByRateDesc(t) ==
    {s \in Perms(Range(t)) :
        \A i, j \in DOMAIN s : i < j => ~FracLess(s[i].Rate, s[j].Rate)}

\* df[c].value_counts(): the counts by value, descending, ties in no defined order
value_counts(d, c) ==
    LET keys == {r[c] : r \in RowSet(d)}
        cnt(k) == [Key |-> k, Count |-> NRows(Where(d, c, k))]
    IN  {s \in Perms({cnt(k) : k \in keys}) :
            \A i, j \in DOMAIN s : i < j => s[i].Count >= s[j].Count}

\* df.groupby(['gender', 'readmitted_label']).size().reset_index(name='count')
gender_counts(d) ==
    LET keys == {<<r.gender, r.readmitted_label>> : r \in RowSet(d)}
        cnt(k) == [gender |-> k[1], readmitted_label |-> k[2],
                   count |-> CountIn(d, {r \in RowSet(d) :
                                r.gender = k[1] /\ r.readmitted_label = k[2]})]
        groups == {cnt(k) : k \in keys}
    IN  Sorted(groups, [g \in groups |->
                           LabelRank(g.gender) * (Len(LabelOrder) + 1)
                           + LabelRank(g.readmitted_label)])

\* df.groupby('readmitted_label').agg({... 'mean'}).round(2)
stats_df(d) ==
    LET keys == {r.readmitted_label : r \in RowSet(d)}
        st(k) == LET g == Where(d, "readmitted_label", k)
                 IN  [Key |-> k,
                      AvgMedications |-> Round2(ColMean(g, "num_medications")),
                      AvgLabProcedures |-> Round2(ColMean(g, "num_lab_procedures")),
                      AvgDiagnoses |-> Round2(ColMean(g, "number_diagnoses")),
                      AvgHospitalDays |-> Round2(ColMean(g, "time_in_hospital"))]
        groups == {st(k) : k \in keys}
    IN  Sorted(groups, [g \in groups |-> LabelRank(g.Key)])

\* (df[c] >= bound).sum() and its share of len(df) in percent
threshold_metric(d, c, bound) ==
    LET n == CountIn(d, {r \in RowSet(d) : r[c] >= bound})
    IN  [count |-> n, pct |-> Times100(Frac(n, NRows(d)))]

\* df.sample(min(5000, len(df))): that many rows drawn without replacement
sample(d) ==
    LET n == Min(SampleCap, NRows(d))
    IN  IF n = NRows(d) THEN {d.rows}
        ELSE {b \in SubBag(d.rows) : BagCardinality(b) = n}

---------------------------------------------------------------------------
(* The script below the load: sidebar and pages *)

Pages ==
    {"Overview", "Patient Demographics", "Clinical Analysis",
     "Readmission Patterns", "Model Predictions"}

\* df[c] raises KeyError on a DataFrame without the column c
KeyError == [raised |-> TRUE]

\* the st.sidebar.info block
sidebar_info(d) ==
    IF "readmitted_30days" \notin d.columns THEN KeyError
    ELSE [raised |-> FALSE,
          total |-> NRows(d),
          readmissions |-> ColSum(d, "readmitted_30days"),
          pct |-> Times100(ColMean(d, "readmitted_30days"))]

\* page "Overview"
overview(d) ==
    IF d.columns = {} THEN {KeyError}
    ELSE {[raised |-> FALSE,
           total |-> NRows(d),
           readmit_count |-> ColSum(d, "readmitted_30days"),
           readmit_pct |-> Times100(Frac(ColSum(d, "readmitted_30days"), NRows(d))),
           avg_stay |-> ColMean(d, "time_in_hospital"),
           avg_meds |-> ColMean(d, "num_medications"),
           diag_counts |-> Head_n(vc, TopN)] : vc \in value_counts(d, "primary_diagnosis")}

\* page "Patient Demographics"
demographics(d) ==
    IF d.columns = {} THEN {KeyError}
    ELSE {[raised |-> FALSE,
           gender_counts |-> gender_counts(d),
           race_readmit |-> t] :
              t \in SortByRateDesc(ReadmitTable(d, "race"))}

\* page "Clinical Analysis"
clinical(d) ==
    IF d.columns = {} THEN {KeyError}
    ELSE {[raised |-> FALSE, scatter |-> sm, stats_df |-> stats_df(d)] : sm \in sample(d)}

\* the filter of the two line charts applied to the Total column
AtMostMaxPriorVisits_on_total(row) == row.Total <= MaxPriorVisits

\* inpatient_readmit['Prior Visits'] <= 5
AtMostMaxPriorVisits(row) == row.Key <= MaxPriorVisits
AtLeastMinCases(row) == row.Total >= MinCases

\* diag_readmit as grouped, before the rows under 100 cases are dropped
diag_groups(d) == ReadmitTable(d, "primary_diagnosis")

\* the table behind 'Top 10 Diagnoses with Highest Readmission Rates'
diag_readmit(d) == SortByRateDesc(SelectSeq(diag_groups(d), AtLeastMinCases))

\* page "Readmission Patterns"
patterns(d) ==
    IF d.columns = {} THEN {KeyError}
    ELSE LET inpatient_readmit == ReadmitTable(d, "number_inpatient")
             emergency_readmit == ReadmitTable(d, "number_emergency")
         IN  {[raised |-> FALSE,
               inpatient_readmit |-> inpatient_readmit,
               inpatient_line |-> SelectSeq(inpatient_readmit, AtMostMaxPriorVisits),
               emergency_readmit |-> emergency_readmit,
               emergency_line |-> SelectSeq(emergency_readmit, AtMostMaxPriorVisits),
               diag_groups |-> diag_groups(d),
               diag_readmit |-> t,
               diag_chart |-> Head_n(t, TopN),
               high_risk_inpatient |-> threshold_metric(d, "number_inpatient", 1),
               high_meds |-> threshold_metric(d, "num_medications", MedsThreshold),
               long_stay |-> threshold_metric(d, "time_in_hospital", StayThreshold)] :
                  t \in diag_readmit(d)}

\* page "Model Predictions" above the button: a fixed table and the form
predictions(d) == {[raised |-> FALSE]}

page_views(p, d) ==
    CASE p = "Overview" -> overview(d)
      [] p = "Patient Demographics" -> demographics(d)
      [] p = "Clinical Analysis" -> clinical(d)
      [] p = "Readmission Patterns" -> patterns(d)
      [] OTHER -> predictions(d)

---------------------------------------------------------------------------
(* The risk form of page "Model Predictions" *)

DefaultForm ==
    [age_input |-> "[0-10)", gender_input |-> "Male", race_input |-> "Caucasian",
     time_hospital |-> 4, num_medications |-> 15, num_lab |-> 40, num_diagnoses |-> 7,
     num_inpatient |-> 0, num_emergency |-> 0, primary_diag |-> "Circulatory"]

\* the values of each widget the user is let choose, all within its options
WidgetValues ==
    [age_input |-> {"[0-10)", "[80-90)"},
     gender_input |-> {"Male", "Female"},
     race_input |-> {"Caucasian", "Other"},
     time_hospital |-> {3, 4, 7, 10},
     num_medications |-> {10, 15, 20, 30},
     num_lab |-> {40, 41},
     num_diagnoses |-> {7, 8},
     num_inpatient |-> {0, 1, 2},
     num_emergency |-> {0, 1, 2},
     primary_diag |-> {"Circulatory", "Respiratory", "Other"}]

Widgets == DOMAIN WidgetValues

HighRiskDiagnoses == {"Circulatory", "Respiratory"}

\* risk_sum with the medication test written > 20 instead of >= 20
risk_sum_strict_meds(f) ==
    RiskBase
    + (IF f.num_inpatient >= 1 THEN RiskInpatient ELSE 0)
    + (IF f.num_emergency >= 1 THEN RiskEmergency ELSE 0)
    + (IF f.num_medications > RiskMedsMin THEN RiskMeds ELSE 0)
    + (IF f.time_hospital >= RiskStayMin THEN RiskStay ELSE 0)
    + (IF f.primary_diag \in HighRiskDiagnoses THEN RiskDiag ELSE 0)

\* risk_score before the cap, in hundredths
risk_sum(f) ==
    RiskBase
    + (IF f.num_inpatient >= 1 THEN RiskInpatient ELSE 0)
    + (IF f.num_emergency >= 1 THEN RiskEmergency ELSE 0)
    + (IF f.num_medications >= RiskMedsMin THEN RiskMeds ELSE 0)
    + (IF f.time_hospital >= RiskStayMin THEN RiskStay ELSE 0)
    + (IF f.primary_diag \in HighRiskDiagnoses THEN RiskDiag ELSE 0)

\* risk_score = min(risk_score, 0.85), in hundredths
risk_score(f) == Min(risk_sum(f), RiskCap)

\* risk_level with the two thresholds tested in the wrong order
risk_level_swapped(score) ==
    IF score < RiskModerate THEN "LOW"
    ELSE IF score < RiskLow THEN "MODERATE"
    ELSE "HIGH"

risk_level(score) ==
    IF score < RiskLow THEN "LOW"
    ELSE IF score < RiskModerate THEN "MODERATE"
    ELSE "HIGH"

recommendation(score) ==
    IF score < RiskLow THEN "Standard discharge protocol recommended."
    ELSE IF score < RiskModerate THEN "Consider follow-up appointment within 7 days."
    ELSE "High-risk patient. Recommend case management, early follow-up, and medication reconciliation."

\* risk_factors with the medication count tested as strictly above 20
risk_factors_strict_meds(f) ==
    (IF f.num_inpatient >= 1
        THEN <<[factor |-> "Prior hospitalizations", value |-> f.num_inpatient]>> ELSE <<>>)
    \o (IF f.num_emergency >= 1
        THEN <<[factor |-> "Prior emergency visits", value |-> f.num_emergency]>> ELSE <<>>)
    \o (IF f.num_medications > RiskMedsMin
        THEN <<[factor |-> "High medication count", value |-> f.num_medications]>> ELSE <<>>)
    \o (IF f.time_hospital >= RiskStayMin
        THEN <<[factor |-> "Extended hospital stay", value |-> f.time_hospital]>> ELSE <<>>)
    \o (IF f.primary_diag \in HighRiskDiagnoses
        THEN <<[factor |-> "High-risk diagnosis", value |-> f.primary_diag]>> ELSE <<>>)

\* the list under 'Key Risk Factors Identified', each entry with the value it prints
risk_factors(f) ==
    (IF f.num_inpatient >= 1
        THEN <<[factor |-> "Prior hospitalizations", value |-> f.num_inpatient]>> ELSE <<>>)
    \o (IF f.num_emergency >= 1
        THEN <<[factor |-> "Prior emergency visits", value |-> f.num_emergency]>> ELSE <<>>)
    \o (IF f.num_medications >= RiskMedsMin
        THEN <<[factor |-> "High medication count", value |-> f.num_medications]>> ELSE <<>>)
    \o (IF f.time_hospital >= RiskStayMin
        THEN <<[factor |-> "Extended hospital stay", value |-> f.time_hospital]>> ELSE <<>>)
    \o (IF f.primary_diag \in HighRiskDiagnoses
        THEN <<[factor |-> "High-risk diagnosis", value |-> f.primary_diag]>> ELSE <<>>)

\* np.random.random(), in thousandths: the draws the model tries
RandomDraws == {0, 999}

NoRisk == [shown |-> FALSE]

\* assessment with the age group entering the score
assessment_with_age(f, u) ==
    LET score == Min(risk_sum(f) + (IF f.age_input = "[80-90)" THEN RiskDiag ELSE 0), RiskCap) IN
    [shown |-> TRUE,
     risk_score |-> score,
     delta |-> Times100(Frac(score - RiskBase, RiskBase)),
     risk_level |-> risk_level(score),
     confidence |-> 6500 + u,
     recommendation |-> recommendation(score),
     risk_factors |-> risk_factors(f),
     no_major_risk_factors |-> risk_factors(f) = <<>>,
     interventions_checked |-> risk_level(score) = "HIGH"]

\* everything the button's branch puts on the screen; u is the random draw
assessment(f, u) ==
    LET score == risk_score(f) IN
    [shown |-> TRUE,
     risk_score |-> score,
     delta |-> Times100(Frac(score - RiskBase, RiskBase)),
     risk_level |-> risk_level(score),
     confidence |-> 6500 + u,
     recommendation |-> recommendation(score),
     risk_factors |-> risk_factors(f),
     no_major_risk_factors |-> risk_factors(f) = <<>>,
     interventions_checked |-> risk_level(score) = "HIGH"]

\* what the button's branch shows on page p
assessments(p, f, pressed) ==
    IF p = "Model Predictions" /\ pressed
    THEN {assessment(f, u) : u \in RandomDraws}
    ELSE {NoRisk}

---------------------------------------------------------------------------
(* One execution of the script *)

NoView == [raised |-> FALSE, empty |-> TRUE]

\* the ways one execution can end, from the load to the footer: page p, widget
\* values f, the button pressed or not
Executions(docs, up, hasConn, c, p, f, pressed) ==
    LET l == cached_load_data(c, hasConn, up, docs)
        sb == sidebar_info(l.df)
        end(o, sbv, v, r) ==
            [conn |-> l.conn, cache |-> l.cache, io |-> l.io, df |-> l.df,
             outcome |-> o, view |-> [sidebar |-> sbv, body |-> v], risk |-> r]
    IN  IF l.status = "stopped" THEN {end("stopped", NoView, NoView, NoRisk)}
        ELSE IF l.status = "exception" THEN {end("load_error", NoView, NoView, NoRisk)}
        ELSE IF sb.raised THEN {end("exception", sb, NoView, NoRisk)}
        ELSE {end(IF v.raised THEN "exception" ELSE "rendered", sb, v,
                  IF v.raised THEN NoRisk ELSE r) :
                 v \in page_views(p, l.df), r \in assessments(p, f, pressed)}

Execute(p, f, pressed) ==
    \E e \in Executions(store, reachable, conn, cache, p, f, pressed) :
        /\ conn' = e.conn
        /\ cache' = e.cache
        /\ io' = e.io
        /\ df' = e.df
        /\ outcome' = e.outcome
        /\ view' = e.view
        /\ risk' = e.risk
        /\ page' = p
        /\ form' = f
        /\ UNCHANGED <<store, reachable>>

\* the sidebar radio is on the screen once the load has returned
RadioShown == outcome \in {"rendered", "exception"}

\* the form and the button are on the screen
FormShown == outcome = "rendered" /\ page = "Model Predictions"

---------------------------------------------------------------------------
(* Actions *)

\* the environment inserts n copies of a document into the collection
InsertDocs(d, n) ==
    /\ Batches(store (+) (d :> n)) <= MaxInserts
    /\ store' = store (+) (d :> n)
    /\ UNCHANGED <<reachable, conn, cache, page, form, outcome, io, df, view, risk>>

\* the database becomes unreachable, or reachable again
SetReachable(b) ==
    /\ b # reachable
    /\ reachable' = b
    /\ UNCHANGED <<store, conn, cache, page, form, outcome, io, df, view, risk>>

TickSteps == {599, 600}

\* d seconds pass: the cache entry ages
Tick(d) ==
    /\ cache.full
    /\ cache.age + d <= MaxAge
    /\ cache' = [cache EXCEPT !.age = @ + d]
    /\ UNCHANGED <<store, reachable, conn, page, form, outcome, io, df, view, risk>>

\* the browser opens or reloads the app: the script runs with the session's widget values
Rerun == Execute(page, form, FALSE)

\* the user picks a page in the sidebar
SelectPage(p) ==
    /\ RadioShown
    /\ p # page
    /\ Execute(p, form, FALSE)

\* the user moves one input widget of the risk form
SetWidget(w, v) ==
    /\ FormShown
    /\ v # form[w]
    /\ Execute(page, [form EXCEPT ![w] = v], FALSE)

\* the user presses 'Calculate Readmission Risk'
PressButton ==
    /\ FormShown
    /\ Execute(page, form, TRUE)

---------------------------------------------------------------------------
(* Specifications *)

\* the data path: collection, caches, clock and page renders; the form keeps
\* the widgets' default values
Init ==
    /\ store = EmptyBag
    /\ reachable = TRUE
    /\ conn = FALSE
    /\ cache = EmptyCache
    /\ page = "Overview"
    /\ form = DefaultForm
    /\ outcome = "idle"
    /\ io = [pings |-> 0, finds |-> 0]
    /\ df = NoDF
    /\ view = [sidebar |-> NoView, body |-> NoView]
    /\ risk = NoRisk

Next ==
    \/ \E b \in Insertions : InsertDocs(b[1], b[2])
    \/ \E b \in BOOLEAN : SetReachable(b)
    \/ \E d \in TickSteps : Tick(d)
    \/ Rerun
    \/ \E p \in Pages : SelectPage(p)
    \/ PressButton

Spec == Init /\ [][Next]_vars

\* the collections the risk form is used over
RiskStores == {SetToBag({d}) : d \in {w \in WellFormedDocs : w.diagnoses.primary = "Diabetes"}}

\* the risk form: a session that has opened page "Model Predictions" over a
\* loaded dataset and then works the form
InitRisk ==
    \E docs \in RiskStores :
        \E e \in Executions(docs, TRUE, FALSE, EmptyCache, "Model Predictions",
                            DefaultForm, FALSE) :
            /\ store = docs
            /\ reachable = TRUE
            /\ conn = e.conn
            /\ cache = e.cache
            /\ page = "Model Predictions"
            /\ form = DefaultForm
            /\ outcome = e.outcome
            /\ io = e.io
            /\ df = e.df
            /\ view = e.view
            /\ risk = e.risk

NextRisk ==
    \/ \E w \in Widgets : \E v \in WidgetValues[w] : SetWidget(w, v)
    \/ PressButton

SpecRisk == InitRisk /\ [][NextRisk]_vars

---------------------------------------------------------------------------
(* Properties of the risk form, checked under SpecRisk *)

\* the five inputs of the form the score is computed from
RiskInputs(f) ==
    <<f.num_inpatient, f.num_emergency, f.num_medications, f.time_hospital, f.primary_diag>>

\* C1: whenever an assessment is on the screen, its score (in hundredths) is
\* 11, plus 15 if prior inpatient visits >= 1, plus 10 if prior emergency
\* visits >= 1, plus 8 if medications >= 20, plus 7 if hospital days >= 7,
\* plus 5 if the diagnosis is Circulatory or Respiratory, capped at 85; the
\* inputs (2, 2, 30, 10, Respiratory) give 56.
C1_ScoreRule ==
    risk.shown =>
        LET sum == 11
                   + (IF form.num_inpatient >= 1 THEN 15 ELSE 0)
                   + (IF form.num_emergency >= 1 THEN 10 ELSE 0)
                   + (IF form.num_medications >= 20 THEN 8 ELSE 0)
                   + (IF form.time_hospital >= 7 THEN 7 ELSE 0)
                   + (IF form.primary_diag \in {"Circulatory", "Respiratory"} THEN 5 ELSE 0)
        IN  /\ risk.risk_score = (IF sum < 85 THEN sum ELSE 85)
            /\ RiskInputs(form) = <<2, 2, 30, 10, "Respiratory">> => risk.risk_score = 56

\* an assessment of the inputs (2, 2, 30, 10, Respiratory) is on the screen
C1_Scenario ==
    /\ risk.shown
    /\ RiskInputs(form) = <<2, 2, 30, 10, "Respiratory">>
    /\ risk.risk_score = 56

\* C2: whenever an assessment is on the screen, its level is LOW exactly when
\* the score is under 0.20, MODERATE exactly when it is at least 0.20 and
\* under 0.40, HIGH exactly when it is at least 0.40; the inputs
\* (1, 0, 10, 3, Other) give score 0.26 and level MODERATE.
C2_LevelRule ==
    risk.shown =>
        /\ risk.risk_level \in {"LOW", "MODERATE", "HIGH"}
        /\ risk.risk_level = "LOW" <=> risk.risk_score < 20
        /\ risk.risk_level = "MODERATE" <=> (20 <= risk.risk_score /\ risk.risk_score < 40)
        /\ risk.risk_level = "HIGH" <=> risk.risk_score >= 40
        /\ RiskInputs(form) = <<1, 0, 10, 3, "Other">> =>
              risk.risk_score = 26 /\ risk.risk_level = "MODERATE"

\* an assessment of the inputs (1, 0, 10, 3, Other) is on the screen
C2_Scenario ==
    /\ risk.shown
    /\ RiskInputs(form) = <<1, 0, 10, 3, "Other">>
    /\ risk.risk_level = "MODERATE"

\* the forms that agree with f on the five inputs of the score
SameRiskInputs(f) ==
    {[f EXCEPT !.age_input = a, !.gender_input = g, !.race_input = r,
               !.num_lab = l, !.num_diagnoses = n] :
        a \in WidgetValues.age_input, g \in WidgetValues.gender_input,
        r \in WidgetValues.race_input, l \in WidgetValues.num_lab,
        n \in WidgetValues.num_diagnoses}

\* the score and level of the assessment e are those on the screen
SameVerdict(e) ==
    /\ e.risk.shown
    /\ e.risk.risk_score = risk.risk_score
    /\ e.risk.risk_level = risk.risk_level

\* C10: the score and level on the screen are those of every other
\* assessment that agrees on prior inpatient count, prior emergency count,
\* medication count, hospital days and diagnosis category: of the one the
\* button would give now with any other age group, gender, race,
\* lab-procedure count and number of diagnoses, with either random draw, and
\* of the one a session over any other loaded dataset gives.
C10_OnlyFiveInputs ==
    risk.shown =>
        /\ \A g \in SameRiskInputs(form) :
              \A e \in Executions(store, reachable, conn, cache, page, g, TRUE) :
                  SameVerdict(e)
        /\ \A docs \in RiskStores :
              \A e \in Executions(docs, TRUE, FALSE, EmptyCache, page, form, TRUE) :
                  SameVerdict(e)

\* an assessment is on the screen whose other inputs, dataset and confidence
\* all differ from the defaults
C10_OtherInputsVaried ==
    /\ risk.shown
    /\ form.age_input # DefaultForm.age_input
    /\ form.gender_input # DefaultForm.gender_input
    /\ form.race_input # DefaultForm.race_input
    /\ form.num_lab # DefaultForm.num_lab
    /\ form.num_diagnoses # DefaultForm.num_diagnoses
    /\ risk.confidence # 6500
    /\ risk.risk_level = "HIGH"

---------------------------------------------------------------------------
(* Properties of the data path, checked under Spec *)

\* this step is one execution of the script: every step is either that or a
\* move of the environment, which changes the collection, whether the
\* database answers, or the age of the cache entry
Ran ==
    /\ store' = store
    /\ reachable' = reachable
    /\ ~(cache.full /\ cache'.full /\ cache'.age > cache.age)

\* the load of the last execution returned a DataFrame
Loaded == outcome \in {"rendered", "exception"}

RECURSIVE SumTotals(_)
SumTotals(t) == IF t = <<>> THEN 0 ELSE Head(t).Total + SumTotals(Tail(t))

\* the readmission tables of the pages, each with the column it groups by;
\* diag_readmit is diag_groups filtered and ranked
GroupedBy ==
    [race_readmit |-> "race",
     inpatient_readmit |-> "number_inpatient",
     emergency_readmit |-> "number_emergency",
     diag_groups |-> "primary_diagnosis",
     diag_readmit |-> "primary_diagnosis"]

Groupings == DOMAIN GroupedBy \ {"diag_readmit"}

\* the table named n is on the screen
Shown(n) == outcome = "rendered" /\ n \in DOMAIN view.body

\* C3 as claimed: the ranking of the diagnoses with total >= 100 is in
\* descending order of rate, rows of equal rate in descending order of total,
\* rows of equal rate and total in ascending order of the diagnosis.
C3_TiesByTotalThenKey ==
    (outcome = "rendered" /\ page = "Readmission Patterns") =>
        LET t == view.body.diag_readmit IN
        \A i, j \in DOMAIN t : i < j =>
            \/ FracLess(t[j].Rate, t[i].Rate)
            \/ /\ FracEq(t[i].Rate, t[j].Rate)
               /\ \/ t[i].Total > t[j].Total
                  \/ t[i].Total = t[j].Total /\ StrLess(t[i].Key, t[j].Key)

\* C3 as amended: the ranking holds exactly the diagnosis groups with
\* total >= 100, each once, in descending order of rate (rows of equal rate in
\* any order), and the chart shows its first 10 rows.
C3_RankedByRateOnly ==
    (outcome = "rendered" /\ page = "Readmission Patterns") =>
        LET t == view.body.diag_readmit
            chart == view.body.diag_chart
        IN  /\ Range(t) = {g \in Range(view.body.diag_groups) : g.Total >= 100}
            /\ \A i, j \in DOMAIN t : i < j =>
                  /\ t[i].Key # t[j].Key
                  /\ t[i].Rate.n * t[j].Rate.d >= t[j].Rate.n * t[i].Rate.d
            /\ Len(chart) = (IF Len(t) < 10 THEN Len(t) ELSE 10)
            /\ \A i \in DOMAIN chart : chart[i] = t[i]

\* the ranking on the screen holds two diagnoses of equal rate and different
\* totals
C3_TieRanked ==
    /\ outcome = "rendered"
    /\ page = "Readmission Patterns"
    /\ \E i, j \in DOMAIN view.body.diag_readmit :
          /\ i < j
          /\ FracEq(view.body.diag_readmit[i].Rate, view.body.diag_readmit[j].Rate)
          /\ view.body.diag_readmit[i].Total # view.body.diag_readmit[j].Total

\* C4 as claimed: an execution whose load returned a dataset of zero
\* documents renders its page, no aggregate of the sidebar or the page raising.
C4_EmptyDatasetRenders ==
    (Loaded /\ NRows(df) = 0) =>
        /\ outcome = "rendered"
        /\ ~view.sidebar.raised
        /\ ~view.body.raised

\* C5: an execution that finds a cache entry younger than 600 seconds makes
\* no call to the database and uses the entry's dataset, leaving the entry as
\* it is; an execution that finds no entry or one 600 seconds old or older
\* calls find once when the database answers, and when its load returns, the
\* dataset is that of all documents now in the collection and becomes the new
\* entry, of age 0; a load that fails leaves no entry.
C5_FetchOncePerWindow ==
    [][Ran =>
        IF cache.full /\ cache.age < 600
        THEN /\ io'.finds = 0
             /\ io'.pings = 0
             /\ df' = cache.df
             /\ cache' = cache
        ELSE /\ reachable => io'.finds = 1
             /\ Loaded' => /\ io'.finds = 1
                           /\ NRows(df') = BagCardinality(store)
                           /\ cache' = [full |-> TRUE, df |-> df', age |-> 0]
             /\ ~Loaded' => ~cache'.full]_vars

\* a page is on the screen that was drawn, without a call to the database,
\* from an entry 599 seconds old that no longer matches the collection
C5_ServedFromCache ==
    /\ outcome = "rendered"
    /\ io.finds = 0
    /\ cache.full
    /\ cache.age = 599
    /\ df = cache.df
    /\ NRows(df) # BagCardinality(store)

\* the nested paths a document must have
RequiredPaths ==
    {<<"demographics", "age">>, <<"demographics", "gender">>, <<"demographics", "race">>,
     <<"admission", "time_in_hospital">>, <<"clinical", "num_medications">>,
     <<"clinical", "num_lab_procedures">>, <<"clinical", "number_diagnoses">>,
     <<"utilization", "number_inpatient">>, <<"utilization", "number_emergency">>,
     <<"diagnoses", "primary">>, <<"outcome", "readmitted_30days">>,
     <<"outcome", "readmitted_30days_label">>}

MissesField(d) ==
    \E q \in RequiredPaths : ~(q[1] \in DOMAIN d /\ q[2] \in DOMAIN d[q[1]])

\* C6: an execution that has to load (no cache entry younger than 600
\* seconds) while the database does not answer or the collection holds a
\* document without a required nested field ends in an error: it has no
\* dataset, leaves no cache entry, shows no sidebar figures, no page and no
\* assessment, and has made at most one connection attempt and one find.
C6_FailedLoadProducesNothing ==
    [][(/\ Ran
        /\ ~(cache.full /\ cache.age < 600)
        /\ (~reachable \/ \E d \in BagToSet(store) : MissesField(d)))
       => /\ outcome' \in {"stopped", "load_error"}
          /\ df' = NoDF
          /\ ~cache'.full
          /\ view' = [sidebar |-> NoView, body |-> NoView]
          /\ ~risk'.shown
          /\ io'.pings <= 1
          /\ io'.finds <= 1]_vars

\* a load has failed on a collection that answers and holds well-formed
\* documents beside one without a required field
C6_MalformedAmongGood ==
    /\ outcome = "load_error"
    /\ reachable
    /\ io.finds = 1
    /\ \E d \in BagToSet(store) : MissesField(d)
    /\ \E d \in BagToSet(store) : ~MissesField(d)
    /\ ~cache.full

\* the row the twelve nested paths of document d prescribe
FlatRow(d) ==
    [age |-> d.demographics.age,
     gender |-> d.demographics.gender,
     race |-> d.demographics.race,
     time_in_hospital |-> d.admission.time_in_hospital,
     num_medications |-> d.clinical.num_medications,
     num_lab_procedures |-> d.clinical.num_lab_procedures,
     number_diagnoses |-> d.clinical.number_diagnoses,
     number_inpatient |-> d.utilization.number_inpatient,
     number_emergency |-> d.utilization.number_emergency,
     primary_diagnosis |-> d.diagnoses.primary,
     readmitted_30days |-> d.outcome.readmitted_30days,
     readmitted_label |-> d.outcome.readmitted_30days_label]

\* C7: when an execution has called find and its load has returned, the
\* dataset has as many rows as the collection has documents, every row is the
\* twelve values at the nested paths of some document, and a row occurs as
\* many times as there are documents with those values.
C7_OneRowPerDocument ==
    [][(Ran /\ io'.finds = 1 /\ Loaded') =>
        /\ NRows(df') = BagCardinality(store)
        /\ \A r \in RowSet(df') : \E d \in BagToSet(store) : r = FlatRow(d)
        /\ \A d \in BagToSet(store) :
              /\ FlatRow(d) \in RowSet(df')
              /\ df'.rows[FlatRow(d)] =
                    SetSum({x \in BagToSet(store) : FlatRow(x) = FlatRow(d)},
                           [x \in BagToSet(store) |-> store[x]])]_vars

\* a page is on the screen over a dataset just loaded from a collection that
\* holds equal documents many times over, beside others
C7_DuplicatesLoaded ==
    /\ outcome = "rendered"
    /\ io.finds = 1
    /\ NRows(df) = BagCardinality(store)
    /\ Cardinality(RowSet(df)) >= 2
    /\ NRows(df) > 100

\* C8: in every readmission table on the screen (by race, by prior inpatient
\* visits, by prior emergency visits, by primary diagnosis) the keys are
\* distinct, each row's Total is the number of records with that key and is
\* at least 1, and the Totals add up to the number of records.
C8_GroupsPartitionRecords ==
    \A n \in Groupings : Shown(n) =>
        LET t == view.body[n] IN
        /\ SumTotals(t) = NRows(df)
        /\ \A i \in DOMAIN t :
              /\ t[i].Total >= 1
              /\ t[i].Total = CountIn(df, {r \in RowSet(df) : r[GroupedBy[n]] = t[i].Key})
        /\ \A i, j \in DOMAIN t : i # j => t[i].Key # t[j].Key

\* the tables by prior visits are on the screen with several groups over more
\* than a hundred records
C8_SeveralGroups ==
    /\ outcome = "rendered"
    /\ page = "Readmission Patterns"
    /\ Len(view.body.inpatient_readmit) >= 2
    /\ Len(view.body.diag_groups) >= 2
    /\ NRows(df) > 100

\* C9 as claimed: in every row of a readmission table on the screen,
\* Readmissions <= Total and Rate is Readmissions / Total, between 0 and 1.
C9_RateIsFraction ==
    \A n \in DOMAIN GroupedBy : Shown(n) =>
        \A i \in DOMAIN view.body[n] :
            LET g == view.body[n][i] IN
            /\ g.Readmissions <= g.Total
            /\ g.Rate.n * g.Total = g.Readmissions * g.Rate.d
            /\ 0 <= g.Rate.n
            /\ g.Rate.n <= g.Rate.d

\* C9 as amended: in every row of a readmission table on the screen,
\* Readmissions <= Total and Rate is 100 * Readmissions / Total, a
\* percentage between 0 and 100.
C9_RateIsPercentage ==
    \A n \in DOMAIN GroupedBy : Shown(n) =>
        \A i \in DOMAIN view.body[n] :
            LET g == view.body[n][i] IN
            /\ g.Readmissions <= g.Total
            /\ g.Rate.d > 0
            /\ g.Rate.n * g.Total = 100 * g.Readmissions * g.Rate.d
            /\ 0 <= g.Rate.n
            /\ g.Rate.n <= 100 * g.Rate.d

\* a table on the screen has a group with some but not all records readmitted
C9_MixedGroup ==
    \E n \in DOMAIN GroupedBy :
        /\ Shown(n)
        /\ \E i \in DOMAIN view.body[n] :
              /\ 0 < view.body[n][i].Readmissions
              /\ view.body[n][i].Readmissions < view.body[n][i].Total

---------------------------------------------------------------------------
(* C11: the line charts by prior visits *)

\* the two line series, each with the table it is cut from
LineOf ==
    [inpatient_line |-> "inpatient_readmit",
     emergency_line |-> "emergency_readmit"]

\* C11: each of the two 'rate by prior visits' series on the screen holds
\* exactly the rows of its readmission table whose key is <= 5, unchanged; its
\* keys are the values <= 5 the column takes in the records, each once and in
\* strictly ascending order, with the record count and the readmission count
\* of the key.
C11_BoundedLineSeries ==
    \A n \in DOMAIN LineOf : Shown(n) =>
        LET line == view.body[n]
            full == view.body[LineOf[n]]
            c == GroupedBy[LineOf[n]]
        IN  /\ Range(line) = {g \in Range(full) : g.Key <= 5}
            /\ \A i, j \in DOMAIN line : i < j => line[i].Key < line[j].Key
            /\ {line[i].Key : i \in DOMAIN line} = {r[c] : r \in {q \in RowSet(df) : q[c] <= 5}}
            /\ \A i \in DOMAIN line :
                  /\ line[i].Total = NRows(Where(df, c, line[i].Key))
                  /\ line[i].Readmissions = ColSum(Where(df, c, line[i].Key), "readmitted_30days")

\* the series by inpatient visits is on the screen with two points, cut from a
\* table that also has a group of more than 5 visits
C11_GroupAboveFiveLeftOut ==
    /\ Shown("inpatient_line")
    /\ Len(view.body.inpatient_line) >= 2
    /\ \E i \in DOMAIN view.body.inpatient_readmit : view.body.inpatient_readmit[i].Key > 5

---------------------------------------------------------------------------
(* C12: the factors listed against the score *)

\* the weight, in hundredths, the score rule gives to each factor of the list
FactorWeight ==
    [f \in {"Prior hospitalizations"} |-> 15]
    @@ [f \in {"Prior emergency visits"} |-> 10]
    @@ [f \in {"High medication count"} |-> 8]
    @@ [f \in {"Extended hospital stay"} |-> 7]
    @@ [f \in {"High-risk diagnosis"} |-> 5]

\* the conditions of the score rule that hold of the widget values f
ConditionsMet(f) ==
    {x \in DOMAIN FactorWeight :
        \/ x = "Prior hospitalizations" /\ f.num_inpatient >= 1
        \/ x = "Prior emergency visits" /\ f.num_emergency >= 1
        \/ x = "High medication count" /\ f.num_medications >= 20
        \/ x = "Extended hospital stay" /\ f.time_hospital >= 7
        \/ x = "High-risk diagnosis" /\ f.primary_diag \in {"Circulatory", "Respiratory"}}

RECURSIVE SumWeights(_)
SumWeights(l) == IF l = <<>> THEN 0 ELSE FactorWeight[Head(l).factor] + SumWeights(Tail(l))

\* C12: whenever an assessment is on the screen, the factors listed are, each
\* once, the conditions of the score rule that hold of the inputs; the score
\* (in hundredths) is 11 plus the weights of the listed factors; 'No major
\* risk factors identified' is shown exactly when the score is 11; and a level
\* other than LOW comes with a non-empty list.
C12_FactorsMatchScore ==
    risk.shown =>
        LET l == risk.risk_factors IN
        /\ {l[i].factor : i \in DOMAIN l} = ConditionsMet(form)
        /\ \A i, j \in DOMAIN l : i # j => l[i].factor # l[j].factor
        /\ risk.risk_score = 11 + SumWeights(l)
        /\ risk.no_major_risk_factors <=> l = <<>>
        /\ risk.no_major_risk_factors <=> risk.risk_score = 11
        /\ risk.risk_level # "LOW" => l # <<>>

\* an assessment is on the screen for 20 medications, a stay under 7 days and
\* a diagnosis without weight: the medication count is among the factors
C12_MedicationsAtThreshold ==
    /\ risk.shown
    /\ form.num_medications = 20
    /\ form.time_hospital < 7
    /\ form.primary_diag = "Other"
    /\ Len(risk.risk_factors) >= 1

===========================================================================
